---- MODULE Spec2Model ----
(***************************************************************************)
(* Model of streamlitprojetfinal.py: the MqttState store shared between    *)
(* the paho network thread of every MQTT session and the Streamlit script  *)
(* run (the render thread), the cached start_mqtt_client sessions, the     *)
(* command publishes, the numeric parsers and the rolling history.         *)
(***************************************************************************)
EXTENDS Integers, Sequences, FiniteSets, TLC

\* ------------------------------------------------------------------ bounds

\* Messages one session's client delivers to on_message.
MaxPuts == 2
\* Capacity of the rolling history (200 in the source, scaled down).
MAX_POINTS == 3
\* Points fed to the rolling history under SpecHistory.
MaxAppends == 5
\* Longest text handed to to_float / to_int under SpecParse.
MaxLen == 4
\* Presses of the command buttons.
MaxPresses == 2

\* ------------------------------------------------------------- constants

\* Python values are tagged records.
None == [type |-> "NoneType"]
PyStr(chars) == [type |-> "str", s |-> chars]
PyFloat(m, e) == [type |-> "float", m |-> m, e |-> e]
PyInt(n) == [type |-> "int", n |-> n]

TOPIC_MUTE_ALARM == "esp32/alarm/mute"
TOPIC_SEUIL == "esp32_1/seuil"

\* Topics on which the model's broker delivers messages: two that feed the
\* charts, two that do not.
ChartTopics == {"esp32_1/temp", "esp32_1/ldr"}
PlainTopics == {"esp32_1/status", "esp32_1/ir"}
Topics == ChartTopics \cup PlainTopics

\* Payload bytes on the wire: "12.5", and an undecodable byte followed by "a".
WirePayloads == {<<"1", "2", ".", "5">>, <<"xFF", "a">>}

\* Values of the "Seuil" number input: 20.0 and 20.5.
SeuilValues == {PyFloat(20, 0), PyFloat(205, 1)}

\* The (host, port) pairs the sidebar can hold: the defaults of lines
\* 15-16, and another broker the user types in.
DefaultKey == <<"51.103.121.129", 1883>>
Keys == {DefaultKey, <<"test.mosquitto.org", 1883>>}

\* CONNACK return codes: 0 accepted, 5 refused (not authorised).
ConnectRcs == {0, 5}
\* rc handed to on_disconnect: 7, connection lost (0 is kept for
\* client.disconnect(), which the program never calls).
DisconnectRcs == {7}
\* paho's publish result codes.
MQTT_ERR_SUCCESS == "MQTT_ERR_SUCCESS"
MQTT_ERR_NO_CONN == "MQTT_ERR_NO_CONN"
\* str(e) of what client.connect and loop_start raise.
ConnectExcText == PyStr(<<"[Errno 111] Connection refused">>)
LoopStartExcText == PyStr(<<"can't start new thread">>)

\* Sessions start_mqtt_client creates, in the order of their creation.
Sessions == {1, 2}
\* Readings of datetime.now().
Times == {0, 1}

\* Owner 0 is the render thread: the dicts a snapshot() built for it.
Addr == {"data", "last_ts"} \X ({0} \cup Sessions)

NoRef == <<"none", 0>>

\* A dict over the model's topics: a key is absent, or holds a value; g is the
\* ordinal of the put that wrote the value (history variable, not in the code).
Absent == [in |-> FALSE]
Entry(v, g) == [in |-> TRUE, val |-> v, g |-> g]
EmptyDict == [t \in Topics |-> Absent]
NoMsg == [topic |-> "", payload |-> <<>>]

VARIABLES
    \* MqttState objects, one per session
    lock, heap, connected, last_error,
    \* paho client of every session
    sock, loop, subscribed, npc, rc, msg, putCount,
    \* history variables of a session: the messages paho handed to
    \* on_message, and whether on_connect(rc = 0) has ever returned
    delivered, connectedOnce,
    \* st.cache_resource and the sessions created so far
    cache, created,
    \* the script run: position, widgets, session_state, locals
    rpc, key, do_mute, do_seuil, history, cur, dataRef, tsRef, snapConn,
    snapErr, snapOf, pubFailed,
    \* history variables of the script: the publish calls made, and the
    \* command buttons pressed
    outbox, presses,
    \* inputs and results of the pure functions (SpecParse, SpecHistory)
    parseIn, parseOut, appended

storeVars == <<lock, heap, connected, last_error>>
clientVars == <<sock, loop, subscribed, npc, rc, msg, putCount, delivered,
                connectedOnce>>
cacheVars == <<cache, created>>
renderVars == <<rpc, key, do_mute, do_seuil, history, cur, dataRef, tsRef,
                snapConn, snapErr, snapOf, pubFailed, outbox, presses>>
pureVars == <<parseIn, parseOut, appended>>
vars == <<storeVars, clientVars, cacheVars, renderVars, pureVars>>

\* ------------------------------------------------------- pure functions

Digits == {"0", "1", "2", "3", "4", "5", "6", "7", "8", "9"}

DigitVal(c) ==
    CASE c = "0" -> 0 [] c = "1" -> 1 [] c = "2" -> 2 [] c = "3" -> 3
      [] c = "4" -> 4 [] c = "5" -> 5 [] c = "6" -> 6 [] c = "7" -> 7
      [] c = "8" -> 8 [] c = "9" -> 9

RECURSIVE Pow10(_)
Pow10(n) == IF n = 0 THEN 1 ELSE 10 * Pow10(n - 1)

RECURSIVE DigitsValue(_)
DigitsValue(ds) ==
    IF ds = <<>> THEN 0
    ELSE 10 * DigitsValue(SubSeq(ds, 1, Len(ds) - 1)) + DigitVal(ds[Len(ds)])

\* A float is m / 10^e, kept with the fewest decimals (12.50 is 12.5, and
\* -0.0 is 0.0); binary rounding is not modelled.
RECURSIVE Normal(_, _)
Normal(m, e) ==
    IF e > 0 /\ m % 10 = 0 THEN Normal(m \div 10, e - 1) ELSE PyFloat(m, e)

\* float(text) for texts without blanks, underscores, exponents, "inf" and
\* "nan": a sign, then digits with at most one "." and at least one digit.
\* Anything else raises ValueError, given here as None.
ParseFloat(chars) ==
    LET signed == chars # <<>> /\ chars[1] \in {"-", "+"}
        body == IF signed THEN Tail(chars) ELSE chars
        dots == {i \in DOMAIN body : body[i] = "."}
        wellFormed ==
            /\ \A i \in DOMAIN body : body[i] \in Digits \cup {"."}
            /\ Cardinality(dots) <= 1
            /\ \E i \in DOMAIN body : body[i] \in Digits
        dot == IF dots = {} THEN Len(body) + 1 ELSE CHOOSE i \in dots : TRUE
        mant == DigitsValue(SubSeq(body, 1, dot - 1) \o
                            SubSeq(body, dot + 1, Len(body)))
        decimals == IF dots = {} THEN 0 ELSE Len(body) - dot
    IN IF ~wellFormed THEN None
       ELSE Normal(IF signed /\ chars[1] = "-" THEN 0 - mant ELSE mant, decimals)

\* float(x): TypeError for None, the number itself for a number.
Float(x) ==
    CASE x.type = "str" -> ParseFloat(x.s)
      [] x.type = "float" -> x
      [] x.type = "int" -> PyFloat(x.n, 0)
      [] OTHER -> None

\* to_float without the missing marker: 0.0 when float(x) raises.
to_float_ZeroOnError(x) == IF Float(x) = None THEN PyFloat(0, 0) ELSE Float(x)
to_float(x) == Float(x)

\* int(f) truncates towards zero.
to_int(x) ==
    LET f == Float(x)
    IN IF f = None THEN None
       ELSE PyInt(IF f.m < 0 THEN 0 - ((0 - f.m) \div Pow10(f.e))
                  ELSE f.m \div Pow10(f.e))

\* str(f) of a float f >= 0: "20.0", "20.5".
RECURSIVE NatChars(_)
DigitChar(d) == CHOOSE c \in Digits : DigitVal(c) = d
NatChars(n) ==
    IF n < 10 THEN <<DigitChar(n)>>
    ELSE Append(NatChars(n \div 10), DigitChar(n % 10))

RECURSIVE FracChars(_, _)
FracChars(n, width) ==
    IF width = 0 THEN <<>>
    ELSE Append(FracChars(n \div 10, width - 1), DigitChar(n % 10))

str_float(f) ==
    PyStr(NatChars(f.m \div Pow10(f.e)) \o <<".">> \o
          (IF f.e = 0 THEN <<"0">> ELSE FracChars(f.m % Pow10(f.e), f.e)))

\* history.append(point); history = history[-MAX_POINTS:]
HistoryAppend_NoTrim(h, point) == Append(h, point)
HistoryAppend(h, point) ==
    LET h1 == Append(h, point)
    IN IF Len(h1) <= MAX_POINTS THEN h1
       ELSE SubSeq(h1, Len(h1) - MAX_POINTS + 1, Len(h1))

\* ------------------------------------------------------------- MqttState

\* threading.Lock: an acquire goes through only while nobody holds the lock.
LockAvailable_NoExclusion(s) == TRUE
LockAvailable(s) == lock[s] = "free"

Acquire(s, who) ==
    /\ LockAvailable(s)
    /\ lock' = [lock EXCEPT ![s] = who]

\* Leaving "with self.lock" releases the lock.
Release_Never(s) == lock' = lock
Release(s) == lock' = [lock EXCEPT ![s] = "free"]

\* "with self.lock: <one assignment>": taken, assigned and released in one
\* step, which is enabled only while the lock is free.
set_connected(s, v) ==
    /\ LockAvailable(s)
    /\ connected' = [connected EXCEPT ![s] = v]

set_error(s, err) ==
    /\ LockAvailable(s)
    /\ last_error' = [last_error EXCEPT ![s] = err]

\* datetime.now(): naive local wall-clock time. Nothing makes two readings
\* increase (clock adjustment, end of daylight saving time), so a reading is
\* any value of Times.
datetime_now == Times

\* dict(d): the address of the object the copy lives in, a fresh dict owned
\* by the caller.
DictCopy_Alias(field, s) == <<field, s>>
DictCopy(field, s) == <<field, 0>>

\* d[k] = v: the entry of key k is replaced, every other key keeps its own.
DictSet_KeepFirst(d, k, v) == IF d[k].in THEN d ELSE [d EXCEPT ![k] = v]
DictSet_Replace(d, k, v) == [x \in DOMAIN d |-> IF x = k THEN v ELSE Absent]
DictSet(d, k, v) == [d EXCEPT ![k] = v]

\* msg.payload.decode("utf-8", errors="replace")
Decode(bytes) ==
    [i \in DOMAIN bytes |-> IF bytes[i] = "xFF" THEN "uFFFD" ELSE bytes[i]]

\* The store the callbacks of session s write to: the state their closure
\* captured when start_mqtt_client built session s.
CallbackState_Latest(s) == created
CallbackState(s) == s

\* ---------------------------------------------------- the network thread

Idle(s) == loop[s] /\ npc[s] = "idle"

\* The broker's CONNACK arrives: paho calls on_connect(rc).
NetConnack(s, r) ==
    /\ Idle(s)
    /\ sock[s] = "tcp"
    /\ sock' = [sock EXCEPT ![s] = IF r = 0 THEN "up" ELSE "refused"]
    /\ rc' = [rc EXCEPT ![s] = r]
    /\ npc' = [npc EXCEPT ![s] = "conn_1"]
    /\ UNCHANGED <<storeVars, loop, subscribed, connectedOnce, msg, putCount, delivered, cacheVars,
                   renderVars, pureVars>>

\* on_connect, line 80
OnConnectSetConnected(s) ==
    /\ npc[s] = "conn_1"
    /\ set_connected(CallbackState(s), rc[s] = 0)
    /\ npc' = [npc EXCEPT ![s] = "conn_2"]
    /\ UNCHANGED <<lock, heap, last_error, sock, loop, subscribed, connectedOnce, rc, msg,
                   putCount, delivered, cacheVars, renderVars, pureVars>>

\* lines 82-84 without the test of line 81: subscribe whatever rc is.
OnConnectSubscribeOrError_Always(s) ==
    /\ npc[s] = "conn_2"
    /\ subscribed' = [subscribed EXCEPT ![s] = TRUE]
    /\ connectedOnce' = [connectedOnce EXCEPT ![s] = @ \/ rc[s] = 0]
    /\ IF rc[s] = 0
       THEN UNCHANGED last_error
       ELSE set_error(CallbackState(s), PyStr(<<"MQTT connect rc=", rc[s]>>))
    /\ rc' = [rc EXCEPT ![s] = 0]
    /\ npc' = [npc EXCEPT ![s] = "idle"]
    /\ UNCHANGED <<lock, heap, connected, sock, loop, msg, putCount, delivered,
                   cacheVars, renderVars, pureVars>>

\* on_connect, lines 81-84
OnConnectSubscribeOrError(s) ==
    /\ npc[s] = "conn_2"
    /\ IF rc[s] = 0
       THEN /\ subscribed' = [subscribed EXCEPT ![s] = TRUE]
            /\ connectedOnce' = [connectedOnce EXCEPT ![s] = TRUE]
            /\ UNCHANGED last_error
       ELSE /\ set_error(CallbackState(s), PyStr(<<"MQTT connect rc=", rc[s]>>))
            /\ UNCHANGED <<subscribed, connectedOnce>>
    /\ rc' = [rc EXCEPT ![s] = 0]
    /\ npc' = [npc EXCEPT ![s] = "idle"]
    /\ UNCHANGED <<lock, heap, connected, sock, loop, msg, putCount, delivered,
                   cacheVars, renderVars, pureVars>>

\* The connection drops (or the broker closes it after refusing the
\* connect): paho closes the socket and calls on_disconnect(rc).
NetConnLost(s, r) ==
    /\ Idle(s)
    /\ sock[s] # "closed"
    /\ sock' = [sock EXCEPT ![s] = "closed"]
    /\ subscribed' = [subscribed EXCEPT ![s] = FALSE]
    /\ rc' = [rc EXCEPT ![s] = r]
    /\ npc' = [npc EXCEPT ![s] = "disc_1"]
    /\ UNCHANGED <<storeVars, loop, connectedOnce, msg, putCount, delivered,
                   cacheVars, renderVars, pureVars>>

\* on_disconnect, line 87
OnDisconnectSetConnected(s) ==
    /\ npc[s] = "disc_1"
    /\ set_connected(CallbackState(s), FALSE)
    /\ npc' = [npc EXCEPT ![s] = "disc_2"]
    /\ UNCHANGED <<lock, heap, last_error, sock, loop, subscribed, connectedOnce, rc, msg,
                   putCount, delivered, cacheVars, renderVars, pureVars>>

\* on_disconnect, lines 88-89
OnDisconnectError(s) ==
    /\ npc[s] = "disc_2"
    /\ IF rc[s] # 0
       THEN set_error(CallbackState(s), PyStr(<<"MQTT disconnect rc=", rc[s]>>))
       ELSE UNCHANGED last_error
    /\ rc' = [rc EXCEPT ![s] = 0]
    /\ npc' = [npc EXCEPT ![s] = "idle"]
    /\ UNCHANGED <<lock, heap, connected, sock, loop, subscribed, connectedOnce, msg,
                   putCount, delivered, cacheVars, renderVars, pureVars>>

\* paho's loop thread reconnects by itself after a connection loss.
NetReconnect(s) ==
    /\ Idle(s)
    /\ sock[s] = "closed"
    /\ sock' = [sock EXCEPT ![s] = "tcp"]
    /\ UNCHANGED <<storeVars, loop, subscribed, connectedOnce, npc, rc, msg, putCount, delivered,
                   cacheVars, renderVars, pureVars>>

\* A PUBLISH of a subscribed topic arrives: paho calls on_message(msg);
\* line 92 decodes the payload.
NetMessage(s, t, bytes) ==
    /\ Idle(s)
    /\ sock[s] = "up"
    /\ subscribed[s]
    /\ putCount[s] < MaxPuts
    /\ putCount' = [putCount EXCEPT ![s] = @ + 1]
    /\ msg' = [msg EXCEPT ![s] = [topic |-> t, payload |-> Decode(bytes)]]
    /\ delivered' = [delivered EXCEPT ![s] = Append(@, msg'[s])]
    /\ npc' = [npc EXCEPT ![s] = "put_acq"]
    /\ UNCHANGED <<storeVars, sock, loop, subscribed, connectedOnce, rc, cacheVars,
                   renderVars, pureVars>>

\* put, line 66
PutAcquire(s) ==
    /\ npc[s] = "put_acq"
    /\ Acquire(CallbackState(s), "net")
    /\ npc' = [npc EXCEPT ![s] = "put_data"]
    /\ UNCHANGED <<heap, connected, last_error, sock, loop, subscribed, connectedOnce, rc,
                   msg, putCount, delivered, cacheVars, renderVars, pureVars>>

\* put, line 67
PutData(s) ==
    /\ npc[s] = "put_data"
    /\ heap' = [heap EXCEPT ![<<"data", CallbackState(s)>>] =
                   DictSet(@, msg[s].topic,
                           Entry(PyStr(msg[s].payload), putCount[s]))]
    /\ npc' = [npc EXCEPT ![s] = "put_ts"]
    /\ UNCHANGED <<lock, connected, last_error, sock, loop, subscribed, connectedOnce, rc,
                   msg, putCount, delivered, cacheVars, renderVars, pureVars>>

\* put without line 68: no timestamp is written.
PutTs_Skipped(s) ==
    /\ npc[s] = "put_ts"
    /\ npc' = [npc EXCEPT ![s] = "put_rel"]
    /\ UNCHANGED <<storeVars, sock, loop, subscribed, connectedOnce, rc, msg,
                   putCount, delivered, cacheVars, renderVars, pureVars>>

\* put, line 68
PutTs(s) ==
    /\ npc[s] = "put_ts"
    /\ \E now \in datetime_now :
         heap' = [heap EXCEPT ![<<"last_ts", CallbackState(s)>>] =
                     DictSet(@, msg[s].topic, Entry(now, putCount[s]))]
    /\ npc' = [npc EXCEPT ![s] = "put_rel"]
    /\ UNCHANGED <<lock, connected, last_error, sock, loop, subscribed, connectedOnce, rc,
                   msg, putCount, delivered, cacheVars, renderVars, pureVars>>

\* put, leaving the with block
PutRelease(s) ==
    /\ npc[s] = "put_rel"
    /\ Release(CallbackState(s))
    /\ msg' = [msg EXCEPT ![s] = NoMsg]
    /\ npc' = [npc EXCEPT ![s] = "idle"]
    /\ UNCHANGED <<heap, connected, last_error, sock, loop, subscribed, connectedOnce, rc,
                   putCount, delivered, cacheVars, renderVars, pureVars>>

Network(s) ==
    \/ \E r \in ConnectRcs : NetConnack(s, r)
    \/ OnConnectSetConnected(s)
    \/ OnConnectSubscribeOrError(s)
    \/ \E r \in DisconnectRcs : NetConnLost(s, r)
    \/ OnDisconnectSetConnected(s)
    \/ OnDisconnectError(s)
    \/ NetReconnect(s)
    \/ \E t \in Topics, b \in WirePayloads : NetMessage(s, t, b)
    \/ PutAcquire(s)
    \/ PutData(s)
    \/ PutTs(s)
    \/ PutRelease(s)

\* ------------------------------------------------------ the script run

Get(d, k) == IF k \in DOMAIN d /\ d[k].in THEN d[k].val ELSE None
Has(d, k) == k \in DOMAIN d /\ d[k].in

\* json.loads of a text without braces, brackets, quotes, blanks and
\* letters other than "a": a JSON number, or a ValueError (None). No such
\* text is a JSON object.
parse_json_safe(x) ==
    LET chars == x.s
        body == IF chars # <<>> /\ chars[1] = "-" THEN Tail(chars) ELSE chars
        dots == {i \in DOMAIN body : body[i] = "."}
        dot == IF dots = {} THEN Len(body) + 1 ELSE CHOOSE i \in dots : TRUE
        isNumber ==
            /\ \A i \in DOMAIN body : body[i] \in Digits \cup {"."}
            /\ Cardinality(dots) <= 1
            /\ dot > 1
            /\ dot > 2 => body[1] # "0"
            /\ dots # {} => dot < Len(body)
    IN IF x.type # "str" \/ ~isNumber THEN None
       ELSE IF dots = {} THEN to_int(x) ELSE to_float(x)

IsDict(v) == v.type = "dict"
DictGet(v, k) == IF k \in DOMAIN v.items THEN v.items[k] ELSE None

\* line 165
CapteurJson(data) ==
    IF Has(data, "capteur/data")
    THEN parse_json_safe(Get(data, "capteur/data"))
    ELSE None

\* lines 168-170
Temperature(data) ==
    LET t == to_float(Get(data, "esp32_1/temp"))
        cj == CapteurJson(data)
    IN IF t = None /\ IsDict(cj) THEN to_float(DictGet(cj, "temperature"))
       ELSE t

LumCandidates ==
    <<"esp32/sensors/luminosity", "esp32_1/luminosity", "esp32_1/ldr">>

\* lines 174-186
Luminosity(data) ==
    LET present == {i \in DOMAIN LumCandidates : Has(data, LumCandidates[i])}
        first == CHOOSE i \in present : \A j \in present : i <= j
        l == IF present = {} THEN None
             ELSE to_int(Get(data, LumCandidates[first]))
        cj == CapteurJson(data)
    IN IF l = None /\ IsDict(cj) THEN to_int(DictGet(cj, "pot")) ELSE l

\* client.publish: paho hands the packet to the socket, or returns
\* MQTT_ERR_NO_CONN when the client has no socket; it does not raise.
PublishResult(s) ==
    IF sock[s] = "closed" THEN MQTT_ERR_NO_CONN ELSE MQTT_ERR_SUCCESS

\* "Reconnect MQTT", lines 120-122: the cache is emptied and the script
\* starts again from the top.
RenderReconnect ==
    /\ rpc = "top"
    /\ created + 1 \in Sessions
    /\ cache' = [k \in Keys |-> 0]
    /\ UNCHANGED <<storeVars, clientVars, created, renderVars, pureVars>>

\* The sidebar, lines 115-139, in a run where Reconnect is not pressed:
\* at most one of the two command buttons is.
RenderWidgets(k, button, seuil) ==
    /\ rpc = "top"
    /\ button # "none" => Len(presses) < MaxPresses
    /\ key' = k
    /\ do_mute' = IF button = "mute" THEN TRUE ELSE do_mute
    /\ do_seuil' = IF button = "seuil" THEN str_float(seuil) ELSE do_seuil
    /\ presses' = IF button = "none" THEN presses
                  ELSE Append(presses, [button |-> button, seuil |-> seuil])
    /\ pubFailed' = FALSE
    /\ rpc' = "get"
    /\ UNCHANGED <<storeVars, clientVars, cacheVars, history, cur, dataRef,
                   tsRef, snapConn, snapErr, snapOf, outbox, pureVars>>

\* What the try block of start_mqtt_client leaves in a new session.
StartSock(outcome) == IF outcome = "connect_raises" THEN "closed" ELSE "tcp"
StartLoop(outcome) == outcome = "started"
StartError_Swallowed(outcome) == None
StartError(outcome) ==
    CASE outcome = "started" -> None
      [] outcome = "connect_raises" -> ConnectExcText
      [] outcome = "loop_start_raises" -> LoopStartExcText

\* st.cache_resource holds a pair for the arguments (host, port).
Cached_Never(k) == FALSE
Cached(k) == cache[k] # 0

\* line 142: the cached pair of this (host, port), or a new session built
\* by start_mqtt_client, lines 77-106.
RenderGetClient(outcome) ==
    /\ rpc = "get"
    /\ IF Cached(key)
       THEN /\ cur' = cache[key]
            /\ UNCHANGED <<cache, created, sock, loop, last_error>>
       ELSE /\ created + 1 \in Sessions
            /\ created' = created + 1
            /\ cur' = created'
            /\ cache' = [cache EXCEPT ![key] = created']
            /\ sock' = [sock EXCEPT ![created'] = StartSock(outcome)]
            /\ loop' = [loop EXCEPT ![created'] = StartLoop(outcome)]
            /\ last_error' =
                   [last_error EXCEPT ![created'] = StartError(outcome)]
    /\ rpc' = "pub_mute"
    /\ UNCHANGED <<lock, heap, connected, subscribed, connectedOnce, npc, rc, msg, putCount, delivered,
                   key, do_mute, do_seuil, history, dataRef, tsRef, snapConn,
                   snapErr, snapOf, pubFailed, outbox, presses, pureVars>>

\* lines 145-146 without line 147: the flag stays set.
RenderPublishMute_NoReset ==
    /\ rpc = "pub_mute"
    /\ IF do_mute
       THEN /\ pubFailed' = (pubFailed \/ PublishResult(cur) # MQTT_ERR_SUCCESS)
            /\ outbox' = Append(outbox, [topic |-> TOPIC_MUTE_ALARM,
                                         payload |-> PyStr(<<"1">>)])
       ELSE UNCHANGED <<pubFailed, outbox>>
    /\ rpc' = "pub_seuil"
    /\ UNCHANGED <<storeVars, clientVars, cacheVars, key, do_mute, do_seuil,
                   history, cur, dataRef, tsRef, snapConn, snapErr, snapOf,
                   presses, pureVars>>

\* lines 145-147
RenderPublishMute ==
    /\ rpc = "pub_mute"
    /\ IF do_mute
       THEN /\ pubFailed' = (pubFailed \/ PublishResult(cur) # MQTT_ERR_SUCCESS)
            /\ outbox' = Append(outbox, [topic |-> TOPIC_MUTE_ALARM,
                                         payload |-> PyStr(<<"1">>)])
            /\ do_mute' = FALSE
       ELSE UNCHANGED <<pubFailed, outbox, do_mute>>
    /\ rpc' = "pub_seuil"
    /\ UNCHANGED <<storeVars, clientVars, cacheVars, key, do_seuil, history,
                   cur, dataRef, tsRef, snapConn, snapErr, snapOf, presses,
                   pureVars>>

\* lines 149-151
RenderPublishSeuil ==
    /\ rpc = "pub_seuil"
    /\ IF do_seuil # None
       THEN /\ pubFailed' = (pubFailed \/ PublishResult(cur) # MQTT_ERR_SUCCESS)
            /\ outbox' = Append(outbox, [topic |-> TOPIC_SEUIL,
                                         payload |-> do_seuil])
            /\ do_seuil' = None
       ELSE UNCHANGED <<pubFailed, outbox, do_seuil>>
    /\ rpc' = "snap_acq"
    /\ UNCHANGED <<storeVars, clientVars, cacheVars, key, do_mute, history,
                   cur, dataRef, tsRef, snapConn, snapErr, snapOf, presses,
                   pureVars>>

\* snapshot, line 71
SnapAcquire ==
    /\ rpc = "snap_acq"
    /\ Acquire(cur, "main")
    /\ rpc' = "snap_data"
    /\ UNCHANGED <<heap, connected, last_error, clientVars, cacheVars, key,
                   do_mute, do_seuil, history, cur, dataRef, tsRef, snapConn,
                   snapErr, snapOf, pubFailed, outbox, presses, pureVars>>

\* snapshot, line 72: dict(self.data)
SnapCopyData ==
    /\ rpc = "snap_data"
    /\ dataRef' = DictCopy("data", cur)
    /\ heap' = [heap EXCEPT ![dataRef'] = heap[<<"data", cur>>]]
    /\ rpc' = "snap_ts"
    /\ UNCHANGED <<lock, connected, last_error, clientVars, cacheVars, key,
                   do_mute, do_seuil, history, cur, tsRef, snapConn, snapErr,
                   snapOf, pubFailed, outbox, presses, pureVars>>

\* snapshot, line 72: dict(self.last_ts), self.connected, self.last_error
SnapCopyRest ==
    /\ rpc = "snap_ts"
    /\ tsRef' = DictCopy("last_ts", cur)
    /\ heap' = [heap EXCEPT ![tsRef'] = heap[<<"last_ts", cur>>]]
    /\ snapConn' = connected[cur]
    /\ snapErr' = last_error[cur]
    /\ rpc' = "snap_rel"
    /\ UNCHANGED <<lock, connected, last_error, clientVars, cacheVars, key,
                   do_mute, do_seuil, history, cur, dataRef, snapOf,
                   pubFailed, outbox, presses, pureVars>>

\* snapshot returns, leaving the with block; line 154 binds the result.
SnapRelease ==
    /\ rpc = "snap_rel"
    /\ Release(cur)
    /\ snapOf' = cur
    /\ rpc' = "derive"
    /\ UNCHANGED <<heap, connected, last_error, clientVars, cacheVars, key,
                   do_mute, do_seuil, history, cur, dataRef, tsRef, snapConn,
                   snapErr, pubFailed, outbox, presses, pureVars>>

\* lines 165-237: the values are derived from the snapshot and a point is
\* appended to the history; the run ends, and the next one starts from the top.
RenderDerive ==
    /\ rpc = "derive"
    /\ LET data == heap[dataRef]
           temperature == Temperature(data)
           luminosity == Luminosity(data)
       IN IF temperature # None \/ luminosity # None
          THEN \E now \in datetime_now :
                 history' = HistoryAppend(history,
                                [time |-> now, temperature |-> temperature,
                                 luminosity |-> luminosity])
          ELSE UNCHANGED history
    /\ rpc' = "top"
    /\ UNCHANGED <<storeVars, clientVars, cacheVars, key, do_mute, do_seuil,
                   cur, dataRef, tsRef, snapConn, snapErr, snapOf, pubFailed, outbox, presses,
                   pureVars>>

Render ==
    \/ RenderReconnect
    \/ \E k \in Keys, b \in {"none", "mute", "seuil"}, v \in SeuilValues :
         RenderWidgets(k, b, v)
    \/ \E o \in {"started", "connect_raises", "loop_start_raises"} :
         RenderGetClient(o)
    \/ RenderPublishMute
    \/ RenderPublishSeuil
    \/ SnapAcquire
    \/ SnapCopyData
    \/ SnapCopyRest
    \/ SnapRelease
    \/ RenderDerive

\* ------------------------------------------------------- specification

InitProgram ==
    /\ lock = [s \in Sessions |-> "free"]
    /\ heap = [a \in Addr |-> EmptyDict]
    /\ connected = [s \in Sessions |-> FALSE]
    /\ last_error = [s \in Sessions |-> None]
    /\ sock = [s \in Sessions |-> "closed"]
    /\ loop = [s \in Sessions |-> FALSE]
    /\ subscribed = [s \in Sessions |-> FALSE]
    /\ npc = [s \in Sessions |-> "idle"]
    /\ rc = [s \in Sessions |-> 0]
    /\ msg = [s \in Sessions |-> NoMsg]
    /\ putCount = [s \in Sessions |-> 0]
    /\ delivered = [s \in Sessions |-> <<>>]
    /\ connectedOnce = [s \in Sessions |-> FALSE]
    /\ cache = [k \in Keys |-> 0]
    /\ created = 0
    /\ rpc = "top"
    /\ key = DefaultKey
    /\ do_mute = FALSE
    /\ do_seuil = None
    /\ history = <<>>
    /\ cur = 0
    /\ dataRef = NoRef
    /\ tsRef = NoRef
    /\ snapConn = FALSE
    /\ snapErr = None
    /\ snapOf = 0
    /\ pubFailed = FALSE
    /\ outbox = <<>>
    /\ presses = <<>>

NotParsed == [done |-> FALSE]

Init ==
    /\ InitProgram
    /\ parseIn = None
    /\ parseOut = NotParsed
    /\ appended = <<>>

\* The whole program: every session's network thread and the script run.
Next ==
    \/ \E s \in Sessions : Network(s)
    \/ Render

Spec == Init /\ [][Next]_vars

\* The callbacks of session s, once paho has called them, run to their end.
CallbackStep(s) ==
    \/ OnConnectSetConnected(s)
    \/ OnConnectSubscribeOrError(s)
    \/ OnDisconnectSetConnected(s)
    \/ OnDisconnectError(s)
    \/ PutAcquire(s)
    \/ PutData(s)
    \/ PutTs(s)
    \/ PutRelease(s)

\* A script run that has started runs to its end.
ScriptStep ==
    \/ \E o \in {"started", "connect_raises", "loop_start_raises"} :
         RenderGetClient(o)
    \/ RenderPublishMute
    \/ RenderPublishSeuil
    \/ SnapAcquire
    \/ SnapCopyData
    \/ SnapCopyRest
    \/ SnapRelease
    \/ RenderDerive

\* --- The store under one session: every connection event and messages on
\* the topics that feed no chart; no button is pressed.
NextStore ==
    \/ \E r \in ConnectRcs : NetConnack(1, r)
    \/ \E r \in DisconnectRcs : NetConnLost(1, r)
    \/ NetReconnect(1)
    \/ \E t \in PlainTopics, b \in WirePayloads : NetMessage(1, t, b)
    \/ CallbackStep(1)
    \/ \E v \in SeuilValues : RenderWidgets(DefaultKey, "none", v)
    \/ ScriptStep

SpecStore == Init /\ [][NextStore]_vars

\* --- The lock of one session's store: every connection event, and
\* messages on one topic with one payload; no button is pressed.
NextLock ==
    \/ \E r \in ConnectRcs : NetConnack(1, r)
    \/ \E r \in DisconnectRcs : NetConnLost(1, r)
    \/ NetReconnect(1)
    \/ NetMessage(1, "esp32_1/status", <<"1", "2", ".", "5">>)
    \/ CallbackStep(1)
    \/ \E v \in SeuilValues : RenderWidgets(DefaultKey, "none", v)
    \/ ScriptStep

SpecLock == Init /\ [][NextLock]_vars

\* Threads are scheduled, and a thread waiting for the lock gets it when the
\* lock is released again and again: a callback that has started and a script
\* run that has started take their next step. What the broker and the user
\* do is not fair.
FairLock ==
    /\ SpecLock
    /\ SF_vars(CallbackStep(1))
    /\ SF_vars(ScriptStep)

\* --- The connection of one session and the command buttons: every
\* connection event, no message.
NextConn ==
    \/ \E r \in ConnectRcs : NetConnack(1, r)
    \/ \E r \in DisconnectRcs : NetConnLost(1, r)
    \/ NetReconnect(1)
    \/ OnConnectSetConnected(1)
    \/ OnConnectSubscribeOrError(1)
    \/ OnDisconnectSetConnected(1)
    \/ OnDisconnectError(1)
    \/ \E b \in {"none", "mute", "seuil"}, v \in SeuilValues :
         RenderWidgets(DefaultKey, b, v)
    \/ ScriptStep

SpecConn == Init /\ [][NextConn]_vars

\* --- Reconnect: two sessions, accepted connects, lost connections, and
\* messages on one topic; no command button is pressed.
NextReconnect ==
    \/ \E s \in Sessions :
         \/ NetConnack(s, 0)
         \/ NetConnLost(s, 7)
         \/ NetReconnect(s)
         \/ NetMessage(s, "esp32_1/status", <<"xFF", "a">>)
         \/ CallbackStep(s)
    \/ RenderReconnect
    \/ \E v \in SeuilValues : RenderWidgets(DefaultKey, "none", v)
    \/ ScriptStep

SpecReconnect == Init /\ [][NextReconnect]_vars

\* Threads are scheduled: a callback that has started and a script run that
\* has started take their next step. What the broker and the user do is not
\* fair.
FairReconnect ==
    /\ SpecReconnect
    /\ \A s \in Sessions : WF_vars(CallbackStep(s))
    /\ WF_vars(ScriptStep)

\* --- The session cache: the user switches between the (host, port) pairs
\* and presses Reconnect; connects are accepted, no message arrives.
NextCache ==
    \/ \E s \in Sessions :
         \/ NetConnack(s, 0)
         \/ OnConnectSetConnected(s)
         \/ OnConnectSubscribeOrError(s)
    \/ RenderReconnect
    \/ \E k \in Keys, v \in SeuilValues : RenderWidgets(k, "none", v)
    \/ ScriptStep

SpecCache == Init /\ [][NextCache]_vars

\* --- The charts: one session whose connect is accepted, messages on the
\* two topics the temperature and the luminosity are read from, with a
\* numeric and a non-numeric payload; no button is pressed.
NextChart ==
    \/ NetConnack(1, 0)
    \/ OnConnectSetConnected(1)
    \/ OnConnectSubscribeOrError(1)
    \/ \E t \in ChartTopics, b \in WirePayloads : NetMessage(1, t, b)
    \/ PutAcquire(1)
    \/ PutData(1)
    \/ PutTs(1)
    \/ PutRelease(1)
    \/ \E v \in SeuilValues : RenderWidgets(DefaultKey, "none", v)
    \/ ScriptStep

SpecChart == Init /\ [][NextChart]_vars

\* --- The numeric parsers, applied to None and to every text of at most
\* MaxLen characters of ParseAlphabet.
ParseAlphabet == {"0", "1", "2", "5", ".", ",", "a", "-"}

RECURSIVE Texts(_)
Texts(n) ==
    IF n = 0 THEN {<<>>}
    ELSE LET shorter == Texts(n - 1)
         IN shorter \cup {Append(t, c) : t \in shorter, c \in ParseAlphabet}

ParseInputs == {None} \cup {PyStr(t) : t \in Texts(MaxLen)}

InitParse ==
    /\ InitProgram
    /\ parseIn \in ParseInputs
    /\ parseOut = NotParsed
    /\ appended = <<>>

ParseApply ==
    /\ ~parseOut.done
    /\ parseOut' = [done |-> TRUE, float |-> to_float(parseIn),
                    int |-> to_int(parseIn)]
    /\ UNCHANGED <<storeVars, clientVars, cacheVars, renderVars, parseIn,
                   appended>>

NextParse == ParseApply

SpecParse == InitParse /\ [][NextParse]_vars

\* --- The rolling history, fed MaxAppends points one after the other.
HistoryPoints ==
    {[time |-> now, temperature |-> PyFloat(t, 0), luminosity |-> None] :
        now \in datetime_now, t \in {10, 11, 12, 13}}

HistoryFeed(point) ==
    /\ Len(appended) < MaxAppends
    /\ history' = HistoryAppend(history, point)
    /\ appended' = Append(appended, point)
    /\ UNCHANGED <<storeVars, clientVars, cacheVars, rpc, key, do_mute,
                   do_seuil, cur, dataRef, tsRef, snapConn, snapErr, snapOf,
                   pubFailed, outbox, presses, parseIn, parseOut>>

NextHistory == \E point \in HistoryPoints : HistoryFeed(point)

SpecHistory == Init /\ [][NextHistory]_vars

\* ----------------------------------------------------------------- claims

\* The snapshot() of the current script run has returned and its result
\* is what dataRef, tsRef, snapConn and snapErr hold.
SnapshotHeld == dataRef # NoRef /\ tsRef # NoRef /\ rpc \notin {"snap_data", "snap_ts"}

\* Session s was created and Reconnect has dropped it from the cache.
Discarded(s) == s <= created /\ \A k \in Keys : cache[k] # s

StoreOf(s) ==
    <<lock[s], heap[<<"data", s>>], heap[<<"last_ts", s>>], connected[s],
      last_error[s]>>

NonEmptyText(e) == e.type = "str" /\ e.s # <<>> /\ e.s # <<"">>

\* C1: whatever puts run concurrently, a snapshot() holds for every topic
\* a payload and a timestamp written together by one put (or neither):
\* never the payload of one put with the timestamp of another.
C1_SnapshotPairsWhole ==
    SnapshotHeld =>
        \A t \in Topics :
            LET d == heap[dataRef][t]
                x == heap[tsRef][t]
            IN /\ d.in = x.in
               /\ d.in => d.g = x.g

\* A snapshot() holds the lock, with a record for the topic, while a put
\* on that topic waits for it.
C1_Witness ==
    /\ rpc = "snap_rel"
    /\ npc[cur] = "put_acq"
    /\ heap[dataRef][msg[cur].topic].in
    /\ heap[tsRef][msg[cur].topic].in

\* C2: once snapshot() has returned, no step of the store's writers (put,
\* set_connected, set_error) changes any of the four fields of the result.
C2_SnapshotIndependent ==
    [][SnapshotHeld =>
          /\ heap'[dataRef] = heap[dataRef]
          /\ heap'[tsRef] = heap[tsRef]
          /\ snapConn' = snapConn
          /\ snapErr' = snapErr]_vars

\* The store has moved on since the snapshot: its data, its connected flag
\* and its last_error all differ from the snapshot's.
C2_Witness ==
    /\ SnapshotHeld
    /\ snapOf # 0
    /\ heap[dataRef] # heap[<<"data", snapOf>>]
    /\ snapConn # connected[snapOf]
    /\ snapErr # last_error[snapOf]

\* C3: a step of session a's callbacks changes the store of no other
\* session; in particular what a discarded session still delivers never
\* reaches the store of the session that replaced it.
C3_CallbacksWriteOwnStore ==
    [][\A a \in Sessions : npc'[a] # npc[a] =>
          \A b \in Sessions \ {a} : StoreOf(b)' = StoreOf(b)]_vars

\* Session 1 is discarded, session 2 is the cached one and has been read
\* by a snapshot(), and session 1's on_message is writing a record.
C3_Witness ==
    /\ Discarded(1)
    /\ \E k \in Keys : cache[k] = 2
    /\ snapOf = 2
    /\ npc[1] = "put_rel"
    /\ heap[<<"data", 1>>] # heap[<<"data", 2>>]

\* C4 (as claimed): the loop thread of a discarded session eventually stops.
C4_DiscardedWorkerStops ==
    \A s \in Sessions : (Discarded(s) /\ loop[s]) ~> ~loop[s]

\* C5 (as claimed): when on_connect(rc = 0) returns, the store has
\* connected = True and last_error = None.
C5_ConnectClearsError ==
    [][\A s \in Sessions :
          (npc[s] = "conn_2" /\ rc[s] = 0 /\ npc'[s] = "idle") =>
              connected'[s] /\ last_error'[s] = None]_vars

\* C6: when on_connect(rc # 0) or on_disconnect(rc # 0) returns, and when
\* start_mqtt_client returns after client.connect raised, the store has
\* connected = False and a non-empty last_error; start_mqtt_client has
\* returned its pair to the script, which goes on.
C6_FailureRecorded ==
    [][/\ \A s \in Sessions :
             (npc[s] \in {"conn_2", "disc_2"} /\ rc[s] # 0 /\ npc'[s] = "idle")
                 => ~connected'[s] /\ NonEmptyText(last_error'[s])
       /\ (rpc = "get" /\ created' # created /\ sock'[created'] = "closed")
             => /\ rpc' = "pub_mute"
                /\ cur' = created'
                /\ cache'[key] = created'
                /\ ~connected'[created']
                /\ NonEmptyText(last_error'[created'])]_vars

\* on_disconnect(7) has returned in a session whose loop thread runs:
\* the store is disconnected and holds the error.
C6_Witness ==
    \E s \in Sessions :
        /\ npc[s] = "idle"
        /\ sock[s] = "closed"
        /\ loop[s]
        /\ ~connected[s]
        /\ last_error[s] = PyStr(<<"MQTT disconnect rc=", 7>>)

\* C7 (as claimed): the snapshot() of a script run in which a publish
\* failed shows an error.
C7_FailedPublishRecorded ==
    (rpc = "derive" /\ pubFailed) => snapErr # None

\* C8: the history is the last min(n, MAX_POINTS) of the n points appended,
\* in the order of their insertion.
C8_HistoryIsLastPoints ==
    LET n == Len(appended)
        kept == IF n < MAX_POINTS THEN n ELSE MAX_POINTS
    IN history = SubSeq(appended, n - kept + 1, n)

\* More than MAX_POINTS points were appended, the first are gone.
C8_Witness ==
    /\ Len(appended) > MAX_POINTS
    /\ Len(history) = MAX_POINTS
    /\ history[1] # appended[1]
    /\ history[MAX_POINTS] = appended[Len(appended)]

\* C9 (as claimed): to_float gives 12.5 for "12,5" and for "12.5", and
\* None for None and for a text with a letter.
C9_CommaOrDot ==
    parseOut.done =>
        /\ parseIn \in {PyStr(<<"1", "2", ",", "5">>), PyStr(<<"1", "2", ".", "5">>)}
              => parseOut.float = PyFloat(125, 1)
        /\ parseIn = None => parseOut.float = None
        /\ (parseIn # None /\ \E i \in DOMAIN parseIn.s : parseIn.s[i] = "a")
              => parseOut.float = None

\* C10 (as claimed): in two successive snapshots of a store, the timestamp
\* of a topic does not decrease.
C10_TimestampsMonotone ==
    [][(rpc = "snap_ts" /\ snapOf = cur /\ tsRef # NoRef) =>
          \A t \in Topics : heap[tsRef][t].in =>
              /\ heap'[tsRef'][t].in
              /\ heap'[tsRef'][t].val >= heap[tsRef][t].val]_vars

\* C10 (amended): in two successive snapshots of a store, the record of a
\* topic stays or is replaced by one put later; a record never goes away.
C10_RecordsInPutOrder ==
    [][/\ (rpc = "snap_data" /\ snapOf = cur /\ dataRef # NoRef) =>
             \A t \in Topics : heap[dataRef][t].in =>
                 /\ heap'[dataRef'][t].in
                 /\ heap'[dataRef'][t].g >= heap[dataRef][t].g
       /\ (rpc = "snap_ts" /\ snapOf = cur /\ tsRef # NoRef) =>
             \A t \in Topics : heap[tsRef][t].in =>
                 /\ heap'[tsRef'][t].in
                 /\ heap'[tsRef'][t].g >= heap[tsRef][t].g]_vars

\* Two snapshots of the same store: the later one, being read, finds a
\* newer record than the one the earlier snapshot holds.
C10_Witness ==
    /\ rpc = "snap_data"
    /\ snapOf = cur
    /\ dataRef # NoRef
    /\ \E t \in Topics :
          /\ heap[dataRef][t].in
          /\ heap[<<"data", cur>>][t].g > heap[dataRef][t].g

\* No on_message of session s is in progress.
DeliveriesCompleted(s) == npc[s] \notin {"put_acq", "put_data", "put_ts", "put_rel"}

\* The messages of topic t among those delivered to session s, in order.
DeliveredOn(s, t) == SelectSeq(delivered[s], LAMBDA m : m.topic = t)

\* Dict d maps every topic to the payload of the last message delivered to
\* session s on it, and has no key for a topic without a message.
ShowsLastDelivered(d, s) ==
    \A t \in Topics :
        LET on == DeliveredOn(s, t)
        IN IF on = <<>> THEN ~d[t].in
           ELSE d[t].in /\ d[t].val = PyStr(on[Len(on)].payload)

\* C11: once the deliveries of a session have completed, its store, and a
\* snapshot() taken of it, map each topic to the payload of the last
\* message delivered on that topic and hold no key for a topic that got none.
C11_LastWriteWins ==
    \A s \in Sessions :
        DeliveriesCompleted(s) =>
            /\ ShowsLastDelivered(heap[<<"data", s>>], s)
            /\ (rpc \in {"snap_ts", "snap_rel"} /\ cur = s)
                  => ShowsLastDelivered(heap[dataRef], s)

\* Two messages with different payloads were delivered on one topic, and a
\* snapshot() taken afterwards shows the second.
C11_Witness ==
    /\ rpc = "snap_rel"
    /\ DeliveriesCompleted(cur)
    /\ \E t \in Topics :
          LET on == DeliveredOn(cur, t)
          IN /\ Len(on) = 2
             /\ on[1].payload # on[2].payload
             /\ heap[dataRef][t].in
             /\ heap[dataRef][t].val = PyStr(on[2].payload)

\* Session s is inside put: called by on_message and not yet returned.
InPut(s) == npc[s] \in {"put_acq", "put_data", "put_ts", "put_rel"}

\* C12: from the call of put(topic, payload) to its return, no step changes
\* connected, last_error, or the payload or timestamp of another topic, in
\* the store put writes to.
C12_PutChangesOneRecord ==
    [][\A s \in Sessions :
          InPut(s) =>
              /\ connected'[s] = connected[s]
              /\ last_error'[s] = last_error[s]
              /\ \A t \in Topics \ {msg[s].topic} :
                    /\ heap'[<<"data", s>>][t] = heap[<<"data", s>>][t]
                    /\ heap'[<<"last_ts", s>>][t] = heap[<<"last_ts", s>>][t]]_vars

\* A connected store that held one record got a put on another topic, and
\* the snapshot() taken next shows both records, connected still True.
C12_Witness ==
    /\ rpc = "derive"
    /\ snapConn
    /\ DeliveriesCompleted(cur)
    /\ Len(delivered[cur]) = 2
    /\ delivered[cur][1].topic # delivered[cur][2].topic
    /\ \A i \in {1, 2} :
          /\ heap[dataRef][delivered[cur][i].topic].in
          /\ heap[dataRef][delivered[cur][i].topic].val =
                 PyStr(delivered[cur][i].payload)

\* Session s is inside on_connect or on_disconnect: in set_connected or
\* set_error, or between the two.
InConnectionCallback(s) == npc[s] \in {"conn_1", "conn_2", "disc_1", "disc_2"}

\* The script run is inside snapshot().
InSnapshot == rpc \in {"snap_acq", "snap_data", "snap_ts", "snap_rel"}

\* C13: under fair scheduling a lock that is held is released, and every
\* put, set_connected, set_error and snapshot that was called returns,
\* whatever the other thread does.
C13_StoreOperationsTerminate ==
    /\ \A s \in Sessions : (lock[s] # "free") ~> (lock[s] = "free")
    /\ \A s \in Sessions : InPut(s) ~> ~InPut(s)
    /\ \A s \in Sessions : InConnectionCallback(s) ~> ~InConnectionCallback(s)
    /\ InSnapshot ~> ~InSnapshot

\* snapshot() waits for the lock while put holds it, between its two writes.
C13_Witness ==
    /\ rpc = "snap_acq"
    /\ lock[cur] = "net"
    /\ npc[cur] = "put_ts"

\* What a reading is worth as a temperature and as a luminosity: "12.5" is
\* 12.5 and 12; a missing reading and the non-numeric payload are None.
ReadingAsFloat(v) == IF v = PyStr(<<"1", "2", ".", "5">>) THEN PyFloat(125, 1) ELSE None
ReadingAsInt(v) == IF v = PyStr(<<"1", "2", ".", "5">>) THEN PyInt(12) ELSE None

\* C14: the script run appends a point exactly when the temperature or the
\* luminosity reading of its snapshot parses; the point holds the parsed
\* value of each reading, and None (never 0) for a reading that is absent
\* or does not parse; every point of the history has a field that is not
\* None, and no field that is 0.
C14_MissingIsNone ==
    [][/\ (rpc = "derive" /\ rpc' = "top") =>
             LET temperature == ReadingAsFloat(Get(heap[dataRef], "esp32_1/temp"))
                 luminosity == ReadingAsInt(Get(heap[dataRef], "esp32_1/ldr"))
             IN IF temperature = None /\ luminosity = None
                THEN history' = history
                ELSE /\ history' # <<>>
                     /\ history'[Len(history')].temperature = temperature
                     /\ history'[Len(history')].luminosity = luminosity
                     /\ Len(history) < MAX_POINTS
                           => history' = Append(history, history'[Len(history')])
       /\ \A i \in DOMAIN history' :
             /\ history'[i].temperature \in {None, PyFloat(125, 1)}
             /\ history'[i].luminosity \in {None, PyInt(12)}
             /\ history'[i].temperature # None \/ history'[i].luminosity # None]_vars

\* The snapshot held a temperature reading that does not parse and a
\* luminosity reading that does: the point appended has None and 12.
C14_Witness ==
    /\ rpc = "top"
    /\ dataRef # NoRef
    /\ Get(heap[dataRef], "esp32_1/temp") = PyStr(<<"uFFFD", "a">>)
    /\ Get(heap[dataRef], "esp32_1/ldr") = PyStr(<<"1", "2", ".", "5">>)
    /\ history # <<>>
    /\ history[Len(history)].temperature = None
    /\ history[Len(history)].luminosity = PyInt(12)

\* The step of line 142: start_mqtt_client(host, port) returns.
GetClientReturns == rpc = "get" /\ rpc' = "pub_mute"

\* C15: line 142 builds a new client/store pair exactly when the cache holds
\* none for the requested (host, port), and otherwise returns the cached
\* pair and touches no client; a session is created by no other step; the
\* cache changes only by such a creation and by Reconnect, which empties it;
\* no other step of a script run opens a connection or starts a loop thread.
C15_CreatedOnlyOnCacheMiss ==
    [][/\ (GetClientReturns /\ cache[key] # 0) =>
             /\ cur' = cache[key]
             /\ created' = created
             /\ cache' = cache
             /\ sock' = sock
             /\ loop' = loop
             /\ \A s \in Sessions : StoreOf(s)' = StoreOf(s)
       /\ (GetClientReturns /\ cache[key] = 0) =>
             /\ created' = created + 1
             /\ cur' = created'
             /\ cache' = [cache EXCEPT ![key] = created']
       /\ created' # created => (GetClientReturns /\ cache[key] = 0)
       /\ (rpc' # rpc /\ ~(GetClientReturns /\ cache[key] = 0)) =>
             sock' = sock /\ loop' = loop
       /\ \A k \in Keys : cache'[k] # cache[k] =>
             \/ GetClientReturns /\ k = key /\ cache[k] = 0
             \/ rpc = "top" /\ rpc' = "top" /\ \A j \in Keys : cache'[j] = 0]_vars

\* Session 1 serves the default broker and session 2 the other one; after a
\* run on session 2, a run with the default host and port gets session 1 back.
C15_Witness ==
    /\ rpc = "pub_mute"
    /\ key = DefaultKey
    /\ cur = 1
    /\ snapOf = 2
    /\ created = 2
    /\ cache[DefaultKey] = 1
    /\ \E k \in Keys \ {DefaultKey} : cache[k] = 2

\* The publish call a press of a command button asks for: "1" on the mute
\* topic, the text of the chosen threshold on the threshold topic.
ExpectedPublish(p) ==
    IF p.button = "mute"
    THEN [topic |-> "esp32/alarm/mute", payload |-> PyStr(<<"1">>)]
    ELSE [topic |-> "esp32_1/seuil",
          payload |-> IF p.seuil = PyFloat(20, 0)
                      THEN PyStr(<<"2", "0", ".", "0">>)
                      ELSE PyStr(<<"2", "0", ".", "5">>)]

\* The script run is between the sidebar and the end of the command block.
BeforeCommandsDone == rpc \in {"get", "pub_mute", "pub_seuil"}

\* C16: the publish calls made are, in order, one per press of a command
\* button. Once a script run is past its command block every press has its
\* publish and both flags are reset, so a run without a press publishes
\* nothing; before that, only the press of the current run can be missing.
C16_OnePublishPerPress ==
    LET expected == [i \in DOMAIN presses |-> ExpectedPublish(presses[i])]
        pending == IF do_mute \/ do_seuil # None THEN 1 ELSE 0
    IN /\ outbox = SubSeq(expected, 1, Len(expected) - pending)
       /\ ~BeforeCommandsDone => pending = 0
       /\ rpc \in {"get", "pub_mute"} => ~(do_mute /\ do_seuil # None)
       /\ rpc = "pub_seuil" => ~do_mute

\* Mute was pressed once, in a session whose connect had raised; the run
\* that published it is over, and a later run, without a press, is past its
\* command block and has published nothing.
C16_Witness ==
    /\ rpc = "derive"
    /\ Len(presses) = 1
    /\ outbox = <<[topic |-> "esp32/alarm/mute", payload |-> PyStr(<<"1">>)]>>
    /\ sock[cur] = "closed"
    /\ ~loop[cur]
    /\ ~pubFailed

\* The step in which on_connect of session s returns.
OnConnectReturns(s) == npc[s] = "conn_2" /\ npc'[s] = "idle"

\* C17: on_connect subscribes when rc = 0, every time, and leaves the
\* session unsubscribed when rc # 0; no other step subscribes; a message is
\* delivered only to a subscribed session, and a store holds a record only
\* if on_connect(rc = 0) has returned in its session.
C17_SubscribeOnlyOnAcceptedConnect ==
    [][\A s \in Sessions :
          /\ OnConnectReturns(s) =>
                IF rc[s] = 0 THEN ~subscribed[s] /\ subscribed'[s]
                ELSE ~subscribed[s] /\ ~subscribed'[s]
          /\ (subscribed'[s] /\ ~subscribed[s]) => (OnConnectReturns(s) /\ rc[s] = 0)
          /\ (connectedOnce'[s] /\ ~connectedOnce[s]) =>
                (OnConnectReturns(s) /\ rc[s] = 0)
          /\ (npc[s] = "idle" /\ npc'[s] = "put_acq") => subscribed[s]
          /\ \A t \in Topics :
                heap'[<<"data", s>>][t].in => connectedOnce'[s]]_vars

\* A store holds a record, and its session, reconnecting after a loss, has
\* been refused: on_connect(5) has returned and nothing is subscribed.
C17_Witness ==
    \E s \in Sessions :
        /\ \E t \in Topics : heap[<<"data", s>>][t].in
        /\ sock[s] = "refused"
        /\ npc[s] = "idle"
        /\ ~subscribed[s]
        /\ last_error[s] = PyStr(<<"MQTT connect rc=", 5>>)

\* The topics dict d has a key for.
KeysOf(d) == {t \in Topics : d[t].in}

\* C18: whenever the lock of a store is free, data and last_ts have the same
\* topics, and so have the two dicts of every snapshot().
C18_SameTopics ==
    /\ \A s \in Sessions :
          lock[s] = "free" =>
              KeysOf(heap[<<"data", s>>]) = KeysOf(heap[<<"last_ts", s>>])
    /\ SnapshotHeld => KeysOf(heap[dataRef]) = KeysOf(heap[tsRef])

\* A snapshot() with one topic in both of its dicts, taken of a store that
\* is now inside a put on a new topic: in the store, under the lock, data
\* has a topic that last_ts has not yet.
C18_Witness ==
    /\ rpc = "derive"
    /\ KeysOf(heap[dataRef]) # {}
    /\ KeysOf(heap[dataRef]) = KeysOf(heap[tsRef])
    /\ lock[snapOf] = "net"
    /\ KeysOf(heap[<<"data", snapOf>>]) # KeysOf(heap[<<"last_ts", snapOf>>])

====
